---- MODULE Spec2Model ----
(***************************************************************************)
(* A model of the component definitions builder of dagster-components      *)
(* (core/component_defs_builder.py) and of the dbt_project field resolver   *)
(* (components/dbt_project/component.py).                                   *)
(*                                                                          *)
(* Three specifications share the module:                                   *)
(*   Spec        - build_component_defs called on a components root         *)
(*   SpecTree    - resolve_decl_node_to_yaml_decls on declaration trees     *)
(*   SpecResolve - resolve_translator on resolution contexts                *)
(***************************************************************************)
EXTENDS Integers, Sequences, FiniteSets, TLC

VARIABLES
    \* --- build_component_defs -------------------------------------------
    root,             \* the components root: one declaration per build unit
    resources,        \* argument `resources` of build_component_defs
    component_types,  \* argument `component_types` of build_component_defs
    registry,         \* local `component_types` after line 100
    discovered,       \* discover_entry_point_component_types() was called
    pc,               \* position of the running call: "idle" or "loop"
    todo,             \* paths components_root.iterdir() has yet to yield
    visited,          \* paths the running call has visited, in order
    all_defs,         \* local list `all_defs`
    invoked,          \* components whose build_defs the call has invoked
    ret,              \* outcome of the latest call
    prev,             \* the call before: its outcome, the unit it visited
                      \* first (0: none) and its invocations of build_defs
    \* --- resolve_decl_node_to_yaml_decls --------------------------------
    decl,             \* the declaration tree: path -> "leaf" | "folder"
    calls,            \* the calls made so far: <<[decl, out]>>
    \* --- resolve_translator ----------------------------------------------
    context,          \* a ResolutionContext: scopes, innermost first
    schema,           \* a DbtProjectSchema (its asset_attributes field)
    resolved          \* outcome of the latest field resolution

buildVars == <<root, resources, component_types, registry, discovered, pc,
               todo, visited, all_defs, invoked, ret, prev>>
treeVars == <<decl, calls>>
resolveVars == <<context, schema, resolved>>
vars == <<buildVars, treeVars, resolveVars>>

----------------------------------------------------------------------------
(* Bounds *)

MaxUnits == 2      \* build units under the components root
MaxNodes == 5      \* nodes of a declaration tree
MaxScopes == 2     \* scopes chained in a resolution context

----------------------------------------------------------------------------
(* Definitions objects *)

\* The named collections of a Definitions object.
DefinitionTypes == <<"assets", "jobs", "resources", "schedules", "sensors">>

CollNames == {DefinitionTypes[i] : i \in DOMAIN DefinitionTypes}

\* An object is identified by who made it: <<path, index>> of the component,
\* <<0, 0>> for an object the caller of build_component_defs supplied.
ExtObj == <<0, 0>>

NoMap == [k \in {} |-> ExtObj]

Definitions(assets, jobs, res) ==
    [c \in CollNames |->
        CASE c = "assets" -> assets
          [] c = "jobs" -> jobs
          [] c = "resources" -> res
          [] OTHER -> NoMap]

EmptyDefs == Definitions(NoMap, NoMap, NoMap)

\* Outcomes of a call: a Definitions object or a raised exception.
Ok(d) == [kind |-> "defs", defs |-> d, error |-> "", coll |-> "", key |-> ""]

Raise(e, c, k) == [kind |-> "error", defs |-> EmptyDefs, error |-> e, coll |-> c, key |-> k]

NoRet == [kind |-> "none", defs |-> EmptyDefs, error |-> "", coll |-> "", key |-> ""]

Pending == [kind |-> "pending", defs |-> EmptyDefs, error |-> "", coll |-> "", key |-> ""]

\* Keys of collection c that two Definitions objects cannot both hold: any
\* shared key, except a resource name bound to the very same object in both.
Conflicts(a, b, c) ==
    {k \in DOMAIN a[c] \cap DOMAIN b[c] : c = "resources" => a[c][k] # b[c][k]}

MergeTwo(a, b) ==
    LET bad == {i \in DOMAIN DefinitionTypes : Conflicts(a, b, DefinitionTypes[i]) # {}}
    IN  IF bad # {}
        THEN LET i == CHOOSE j \in bad : \A l \in bad : j <= l
                 c == DefinitionTypes[i]
             IN  Raise("DuplicateDefinitionError", c, CHOOSE k \in Conflicts(a, b, c) : TRUE)
        ELSE Ok([c \in CollNames |-> a[c] @@ b[c]])

RECURSIVE MergeFrom(_, _)
MergeFrom(acc, ds) ==
    IF ds = <<>>
    THEN Ok(acc)
    ELSE LET m == MergeTwo(acc, Head(ds))
         IN  IF m.kind = "error" THEN m ELSE MergeFrom(m.defs, Tail(ds))

\* Definitions.merge(*ds): one sequential pass over ds.
Merge(ds) == MergeFrom(EmptyDefs, ds)

----------------------------------------------------------------------------
(* Declarations under the components root *)

\* Component types installed as entry points.
EntryPointTypes == {"foo"}

discover_entry_point_component_types == EntryPointTypes

\* A leaf declaration: its declared type, what goes wrong when it is
\* loaded or built (nothing, a scope error, a failing build_defs), and what
\* its component's build_defs produces: assets, and possibly a job "j", a
\* resource "r" of its own, or the caller's resource object under "r".
Leaf(t, f, a, e) == [type |-> t, fault |-> f, assets |-> a, extra |-> e]

SimpleLeaves == {Leaf("foo", "none", a, "none") : a \in {{"x"}, {"y"}}}

LeafDecls ==
    SimpleLeaves
        \cup {Leaf("baz", "none", {}, "none")}
        \cup {Leaf("foo", f, {}, "none") : f \in {"scope", "build"}}
        \cup {Leaf("foo", "none", {"y"}, "job")}
        \cup {Leaf("foo", "none", {}, e) : e \in {"res_ext", "res_own"}}

\* What path_to_decl_node finds at a unit's path: nothing, or a declaration
\* given by its leaves in child order (one leaf, or a folder of leaves).
NoDecl == [found |-> FALSE, leaves |-> <<>>]

Decl(ls) == [found |-> TRUE, leaves |-> ls]

UnitDecls ==
    {NoDecl, Decl(<<>>)}
        \cup {Decl(<<l>>) : l \in LeafDecls}
        \cup {Decl(<<l1, l2>>) : l1 \in {Leaf("foo", "none", {"x"}, "none")},
                                  l2 \in SimpleLeaves}

path_to_decl_node(path) == root[path]

\* The values of the optional argument component_types: None, or a registry.
None == [given |-> FALSE, keys |-> {}]

Registry(ks) == [given |-> TRUE, keys |-> ks]

\* Python truth value of the argument: None and the empty dict are falsy.
Truthy(ct) == ct.given /\ ct.keys # {}

----------------------------------------------------------------------------
(* Loading and building one unit *)

Component(path, i, leaf) == [path |-> path, idx |-> i, leaf |-> leaf]

Id(c) == <<c.path, c.idx>>

\* The registry decl_node.load resolves types against. The context built by
\* build_defs_from_component_path holds module_name, resources, decl_node
\* and resolution_context only: the registry of build_component_defs is not
\* handed down, so a leaf's type is resolved by discovery.
LoadRegistry == discover_entry_point_component_types

\* decl_node.load(context): the components of the leaves in child order, or
\* the first error met.
Load(path, d) ==
    LET bad == {i \in DOMAIN d.leaves :
                    d.leaves[i].type \notin LoadRegistry \/ d.leaves[i].fault = "scope"}
    IN  IF bad = {}
        THEN [error |-> "", key |-> "",
              components |-> [i \in DOMAIN d.leaves |-> Component(path, i, d.leaves[i])]]
        ELSE LET i == CHOOSE j \in bad : \A l \in bad : j <= l
             IN  IF d.leaves[i].type \notin LoadRegistry
                 THEN [error |-> "UnknownComponentTypeError", key |-> d.leaves[i].type,
                       components |-> <<>>]
                 ELSE [error |-> "ScopeResolutionError", key |-> "node",
                       components |-> <<>>]

\* c.build_defs(context)
build_defs(c) ==
    IF c.leaf.fault = "build"
    THEN Raise("BuildDefsError", "", "")
    ELSE Ok(Definitions(
            [k \in c.leaf.assets |-> Id(c)],
            IF c.leaf.extra = "job" THEN [k \in {"j"} |-> Id(c)] ELSE NoMap,
            CASE c.leaf.extra = "res_own" -> [k \in {"r"} |-> Id(c)]
              [] c.leaf.extra = "res_ext" -> [k \in {"r"} |-> ExtObj]
              [] OTHER -> NoMap))

\* The merge of the components' Definitions, with the resources last.
defs_from_components_silent(components, res) ==
    LET built == [i \in DOMAIN components |-> build_defs(components[i])]
        bad == {i \in DOMAIN components : built[i].kind = "error"}
    IN  IF bad # {}
        THEN LET i == CHOOSE j \in bad : \A l \in bad : j <= l
             IN  [out |-> built[i], calls |-> {Id(components[j]) : j \in 1..i}]
        ELSE LET m == Merge([i \in DOMAIN components |-> built[i].defs])
             IN  [out |-> IF m.kind = "error" THEN m
                          ELSE Ok([c \in CollNames |->
                                    IF c = "resources" THEN res @@ m.defs[c] ELSE m.defs[c]]),
                  calls |-> {Id(components[j]) : j \in DOMAIN components}]

defs_from_components(components, res) ==
    LET built == [i \in DOMAIN components |-> build_defs(components[i])]
        bad == {i \in DOMAIN components : built[i].kind = "error"}
    IN  IF bad # {}
        THEN LET i == CHOOSE j \in bad : \A l \in bad : j <= l
             IN  [out |-> built[i], calls |-> {Id(components[j]) : j \in 1..i}]
        ELSE [out |-> Merge([i \in DOMAIN components |-> built[i].defs]
                              \o <<Definitions(NoMap, NoMap, res)>>),
              calls |-> {Id(components[j]) : j \in DOMAIN components}]

build_defs_from_component_path_cached(path, res) ==
    LET decl_node == path_to_decl_node(path)
        loaded == Load(path, decl_node)
        fresh == defs_from_components(loaded.components, res)
    IN  IF ~decl_node.found
        THEN [out |-> Raise("Exception", "", ""), calls |-> {}]
        ELSE IF loaded.error # ""
        THEN [out |-> Raise(loaded.error, "", loaded.key), calls |-> {}]
        ELSE IF prev.ret.kind = "defs"
        THEN [out |-> fresh.out, calls |-> {}]
        ELSE fresh

build_defs_from_component_path(path, res) ==
    LET decl_node == path_to_decl_node(path)
    IN  IF ~decl_node.found
        THEN [out |-> Raise("Exception", "", ""), calls |-> {}]
        ELSE LET loaded == Load(path, decl_node)
             IN  IF loaded.error # ""
                 THEN [out |-> Raise(loaded.error, "", loaded.key), calls |-> {}]
                 ELSE defs_from_components(loaded.components, res)

----------------------------------------------------------------------------
(* build_component_defs *)

Perms(S) ==
    {s \in [1..Cardinality(S) -> S] : \A i, j \in DOMAIN s : i # j => s[i] # s[j]}

\* components_root.iterdir(): the unit paths, in an arbitrary order.
iterdir == Perms(DOMAIN root)

\* Line 100: component_types = component_types or discover...()
Call ==
    /\ pc = "idle"
    /\ prev' = [ret |-> ret, invoked |-> invoked,
                first |-> IF visited = <<>> THEN 0 ELSE Head(visited)]
    /\ discovered' = ~Truthy(component_types)
    /\ registry' = IF Truthy(component_types)
                   THEN component_types.keys
                   ELSE discover_entry_point_component_types
    /\ all_defs' = <<>>
    /\ todo' \in iterdir
    /\ visited' = <<>>
    /\ invoked' = {}
    /\ ret' = Pending
    /\ pc' = "loop"
    /\ UNCHANGED <<root, resources, component_types, treeVars, resolveVars>>

\* What remains of the call when a unit's build raises: the exception
\* leaves build_component_defs, and its locals with it.
UnitRaisedSwallowed(r) ==
    /\ all_defs' = all_defs
    /\ todo' = Tail(todo)
    /\ UNCHANGED <<ret, pc>>

UnitRaised(r) ==
    /\ ret' = r.out
    /\ pc' = "idle"
    /\ all_defs' = <<>>
    /\ todo' = <<>>

\* One iteration of the loop of lines 103-109.
LoopBody ==
    /\ pc = "loop"
    /\ todo # <<>>
    /\ LET component_path == Head(todo)
           r == build_defs_from_component_path(component_path, resources)
       IN  /\ visited' = Append(visited, component_path)
           /\ invoked' = invoked \cup r.calls
           /\ IF r.out.kind = "error"
              THEN UnitRaised(r)
              ELSE /\ all_defs' = Append(all_defs, r.out.defs)
                   /\ todo' = Tail(todo)
                   /\ UNCHANGED <<ret, pc>>
    /\ UNCHANGED <<root, resources, component_types, registry, discovered, prev,
                   treeVars, resolveVars>>

\* The value of line 110.
RECURSIVE OverrideFrom(_, _)
OverrideFrom(acc, ds) ==
    IF ds = <<>>
    THEN Ok(acc)
    ELSE OverrideFrom([c \in CollNames |-> acc[c] @@ Head(ds)[c]], Tail(ds))

ReturnOverride(ds) == OverrideFrom(EmptyDefs, ds)

ReturnFirst(ds) == IF ds = <<>> THEN Ok(EmptyDefs) ELSE Ok(Head(ds))

ReturnValue(ds) == Merge(ds)

\* Line 110: return Definitions.merge(*all_defs)
Return ==
    /\ pc = "loop"
    /\ todo = <<>>
    /\ ret' = ReturnValue(all_defs)
    /\ pc' = "idle"
    /\ all_defs' = <<>>
    /\ UNCHANGED <<root, resources, component_types, registry, discovered, todo,
                   visited, invoked, prev, treeVars, resolveVars>>

Roots == UNION {[1..n -> UnitDecls] : n \in 0..MaxUnits}

InitBuild ==
    /\ root \in Roots
    /\ resources \in {NoMap, [k \in {"r"} |-> ExtObj]}
    /\ component_types \in {None, Registry({}), Registry({"foo"}), Registry({"bar"})}
    /\ registry = {}
    /\ discovered = FALSE
    /\ pc = "idle"
    /\ todo = <<>>
    /\ visited = <<>>
    /\ all_defs = <<>>
    /\ invoked = {}
    /\ ret = NoRet
    /\ prev = [ret |-> NoRet, invoked |-> {}, first |-> 0]

IdleBuild ==
    /\ root = <<>>
    /\ resources = NoMap
    /\ component_types = None
    /\ registry = {}
    /\ discovered = FALSE
    /\ pc = "idle"
    /\ todo = <<>>
    /\ visited = <<>>
    /\ all_defs = <<>>
    /\ invoked = {}
    /\ ret = NoRet
    /\ prev = [ret |-> NoRet, invoked |-> {}, first |-> 0]

----------------------------------------------------------------------------
(* resolve_decl_node_to_yaml_decls *)

\* A declaration tree is a map from the path of a node (the child indexes
\* leading to it from the root) to its kind: a YamlComponentDecl ("leaf"), a
\* ComponentFolder ("folder"), or another kind of ComponentDeclNode.
NodeKinds == {"leaf", "folder", "other"}

IsChild(q, p) == Len(q) = Len(p) + 1 /\ SubSeq(q, 1, Len(p)) = p

NumChildren(t, p) == Cardinality({q \in DOMAIN t : IsChild(q, p)})

\* decl.sub_decls of the folder at p, in its order.
sub_decls(t, p) == [i \in 1..NumChildren(t, p) |-> Append(p, i)]

Returned(l) == [raised |-> FALSE, list |-> l]

NotImplementedError == [raised |-> TRUE, list |-> <<>>]

\* leaf_decls.extend(more)
ExtendOverwrite(leaf_decls, more) == more

Extend(leaf_decls, more) == leaf_decls \o more

RECURSIVE resolve_decl_node_to_yaml_decls(_, _)
RECURSIVE ResolveSubDecls(_, _, _)

\* The loop of lines 30-31 from the sub_decls not yet visited.
ResolveSubDecls(t, rest, leaf_decls) ==
    IF rest = <<>>
    THEN Returned(leaf_decls)
    ELSE LET r == resolve_decl_node_to_yaml_decls(t, Head(rest))
         IN  IF r.raised
             THEN r
             ELSE ResolveSubDecls(t, Tail(rest), Extend(leaf_decls, r.list))

resolve_decl_node_to_yaml_decls(t, p) ==
    IF t[p] = "leaf"
    THEN Returned(<<p>>)
    ELSE IF t[p] = "folder"
    THEN ResolveSubDecls(t, sub_decls(t, p), <<>>)
    ELSE NotImplementedError

\* A declaration appears under a folder of the tree, after its siblings.
AddDecl ==
    /\ calls = <<>>
    /\ Cardinality(DOMAIN decl) < MaxNodes
    /\ \E p \in DOMAIN decl : \E k \in NodeKinds :
          /\ decl[p] = "folder"
          /\ decl' = decl @@ (Append(p, NumChildren(decl, p) + 1) :> k)
    /\ UNCHANGED <<calls, buildVars, resolveVars>>

\* A call resolve_decl_node_to_yaml_decls(decl) on the root of the tree.
ResolveDecl ==
    /\ Len(calls) < 2
    /\ calls' = Append(calls, [decl |-> decl,
                               out |-> resolve_decl_node_to_yaml_decls(decl, <<>>)])
    /\ UNCHANGED <<decl, buildVars, resolveVars>>

InitTree ==
    /\ decl \in {[p \in {<<>>} |-> k] : k \in NodeKinds}
    /\ calls = <<>>

IdleTree ==
    /\ decl = [p \in {<<>>} |-> "folder"]
    /\ calls = <<>>

NextTree == AddDecl \/ ResolveDecl

----------------------------------------------------------------------------
(* resolve_translator *)

ScopeNames == {"node", "env"}

ScopeValues == {"a", "b"}

\* ResolutionContext.default(): one scope, without "node".
DefaultContext == <<[k \in {"env"} |-> "a"]>>

\* A lookup falls back to the parent when the name is absent locally.
InScope(ctx, name) == \E i \in DOMAIN ctx : name \in DOMAIN ctx[i]

\* The values an Optional[AssetAttributesSchema] field can hold.
NoAttributes == [set |-> FALSE, key |-> "", deps |-> <<>>]

AssetAttributesSchema(key, deps) == [set |-> TRUE, key |-> key, deps |-> deps]

DbtProjectSchema == [asset_attributes :
    {NoAttributes} \cup {AssetAttributesSchema(k, d) :
                            k \in {"", "{{ node.name }}"}, d \in {<<>>, <<"up">>}}]

Translator(ctx, attrs) ==
    [kind |-> "translator", error |-> "", key |-> "", obj_name |-> "node",
     attributes |-> attrs, context |-> ctx]

Raised(ctx, e, k) ==
    [kind |-> "error", error |-> e, key |-> k, obj_name |-> "",
     attributes |-> NoAttributes, context |-> ctx]

Unresolved ==
    [kind |-> "none", error |-> "", key |-> "", obj_name |-> "",
     attributes |-> NoAttributes, context |-> <<>>]

resolve_translator(ctx, sch) ==
    IF sch.asset_attributes.set /\ sch.asset_attributes.deps # <<>>
    THEN Raised(ctx, "ValueError", "deps")
    ELSE Translator(ctx, IF sch.asset_attributes.set
                         THEN sch.asset_attributes
                         ELSE AssetAttributesSchema("", <<>>))

\* context.with_scope(name=value): a child context with one more scope.
WithScope ==
    /\ Len(context) <= MaxScopes
    /\ \E n \in ScopeNames : \E v \in ScopeValues :
          context' = <<[k \in {n} |-> v]>> \o context
    /\ UNCHANGED <<schema, resolved, buildVars, treeVars>>

\* The translator field of DbtProjectComponent is resolved: its FieldResolver
\* is called with the context and the schema.
ResolveField ==
    /\ resolved' = resolve_translator(context, schema)
    /\ UNCHANGED <<context, schema, buildVars, treeVars>>

InitResolve ==
    /\ context = DefaultContext
    /\ schema \in DbtProjectSchema
    /\ resolved = Unresolved

IdleResolve ==
    /\ context = DefaultContext
    /\ schema = [asset_attributes |-> NoAttributes]
    /\ resolved = Unresolved

NextResolve == WithScope \/ ResolveField

----------------------------------------------------------------------------
(* Specifications *)

Init == InitBuild /\ IdleTree /\ IdleResolve

Next == Call \/ LoopBody \/ Return

Spec == Init /\ [][Next]_vars

TreeInit == IdleBuild /\ InitTree /\ IdleResolve

SpecTree == TreeInit /\ [][NextTree]_vars

ResolveInit == IdleBuild /\ IdleTree /\ InitResolve

SpecResolve == ResolveInit /\ [][NextResolve]_vars

----------------------------------------------------------------------------
(* Properties of build_component_defs *)

Paths == DOMAIN root

\* A call has returned or raised.
Done == pc = "idle" /\ ret.kind # "none"

\* The call that has returned or raised was not the first one.
CalledBefore == prev.ret.kind # "none"

Leaves(p) == root[p].leaves

\* The unit at p cannot be built: no declaration at its path, an unknown
\* component type, a scope error in resolution, or a failing build_defs.
Failing(p) ==
    \/ ~root[p].found
    \/ \E i \in DOMAIN Leaves(p) :
          Leaves(p)[i].type \notin EntryPointTypes \/ Leaves(p)[i].fault # "none"

\* The entries the declarations under the root put into collection c:
\* <<key, object>> pairs. Every unit with a declaration adds the resources.
LeafKeys(l, c) ==
    CASE c = "assets" -> l.assets
      [] c = "jobs" -> IF l.extra = "job" THEN {"j"} ELSE {}
      [] c = "resources" -> IF l.extra \in {"res_own", "res_ext"} THEN {"r"} ELSE {}
      [] OTHER -> {}

LeafObj(p, i, c) ==
    IF c = "resources" /\ Leaves(p)[i].extra = "res_ext" THEN ExtObj ELSE <<p, i>>

Declared(p, c) ==
    IF Failing(p) THEN {}
    ELSE UNION {{<<k, LeafObj(p, i, c)>> : k \in LeafKeys(Leaves(p)[i], c)} :
                    i \in DOMAIN Leaves(p)}
         \cup (IF c = "resources"
               THEN {<<k, resources[k]>> : k \in DOMAIN resources}
               ELSE {})

DeclaredAll(c) == UNION {Declared(p, c) : p \in Paths}

\* Two different entries of collection c are declared under one key.
Collides(S) == \E e1, e2 \in S : e1 # e2 /\ e1[1] = e2[1]

DeclaredCollision == \E c \in CollNames : Collides(DeclaredAll(c))

Entries(d, c) == {<<k, d[c][k]>> : k \in DOMAIN d[c]}

AssetKeys(p) == {e[1] : e \in Declared(p, "assets")}

\* Two different units each produce an asset with the same key.
SharedAssetKeys ==
    UNION {AssetKeys(p) \cap AssetKeys(q) : <<p, q>> \in {pq \in Paths \X Paths : pq[1] # pq[2]}}

\* C1: when two different build units each produce an asset with the same
\* key, the call fails and returns no Definitions, whichever unit is visited
\* first; when that is the only thing wrong under the root, the failure is a
\* DuplicateDefinitionError on the assets naming a shared key.
C1_DuplicateAssetFails ==
    (Done /\ SharedAssetKeys # {}) =>
        /\ ret.kind = "error"
        /\ ((\A p \in Paths : ~Failing(p))
              /\ (\A c \in CollNames \ {"assets"} : ~Collides(DeclaredAll(c)))
              /\ (\A p \in Paths : ~Collides(Declared(p, "assets")))) =>
                /\ ret.error = "DuplicateDefinitionError"
                /\ ret.coll = "assets"
                /\ ret.key \in SharedAssetKeys

C1_Witness ==
    /\ Done
    /\ Len(root) = 2
    /\ SharedAssetKeys = {"x"}
    /\ visited = <<2, 1>>
    /\ ret.error = "DuplicateDefinitionError"
    /\ ret.key = "x"

\* C2: when every unit under the root builds, the units' asset key sets are
\* pairwise disjoint and nothing else collides, the call succeeds and the
\* assets of the composite are exactly the units' assets: none lost, none
\* added. This covers the root with no unit at all.
C2_DisjointUnion ==
    (Done /\ (\A p \in Paths : ~Failing(p)) /\ ~DeclaredCollision) =>
        /\ ret.kind = "defs"
        /\ Entries(ret.defs, "assets") = DeclaredAll("assets")

C2_Witness ==
    /\ Done
    /\ Len(root) = 2
    /\ AssetKeys(1) = {"x"}
    /\ AssetKeys(2) = {"y"}
    /\ ret.kind = "defs"
    /\ DOMAIN ret.defs["assets"] = {"x", "y"}

C5_FailureAbortsBuild ==
    /\ (Done /\ ((\E p \in Paths : Failing(p)) \/ DeclaredCollision)) =>
          ret.kind = "error" /\ ret.defs = EmptyDefs
    /\ pc = "idle" => all_defs = <<>>

C5_Witness ==
    /\ Done
    /\ Len(visited) = 2
    /\ ~Failing(visited[1])
    /\ Failing(visited[2])
    /\ AssetKeys(visited[1]) # {}
    /\ ret.kind = "error"

\* C6 as claimed: a registry passed as component_types is the one leaf types
\* are resolved against, so a leaf whose type it lacks fails the build, and
\* discovery is consulted only when no registry is passed.
C6_PassedRegistryIsUsed ==
    (Done /\ component_types.given
        /\ \E p \in Paths : \E i \in DOMAIN Leaves(p) :
              Leaves(p)[i].type \notin component_types.keys) =>
        /\ ~discovered
        /\ ret.kind = "error"

\* C7 as claimed: a successful build returns a composite that holds every
\* externally supplied resource, bound to the supplied object, for any
\* number of units; and the resources supplied to several units do not by
\* themselves make the merge fail.
C7_CompositeHoldsResources ==
    /\ (Done /\ ret.kind = "defs") =>
          \A k \in DOMAIN resources :
              k \in DOMAIN ret.defs["resources"] /\ ret.defs["resources"][k] = resources[k]
    /\ (Done /\ ret.error = "DuplicateDefinitionError" /\ ret.coll = "resources") =>
          \E p \in Paths : \E i \in DOMAIN Leaves(p) : Leaves(p)[i].extra = "res_own"

\* A component under the root defines, with an object of its own, a resource
\* name that is also supplied externally.
OwnResourceClash(p) ==
    /\ ~Failing(p)
    /\ "r" \in DOMAIN resources
    /\ \E i \in DOMAIN Leaves(p) : Leaves(p)[i].extra = "res_own"

\* C8: when a component defines, with a different object, a resource name
\* that is also supplied externally, the call fails and neither object
\* replaces the other; when every other unit builds, the failure is a
\* DuplicateDefinitionError on the resources naming that name.
C8_ResourceClashFails ==
    (Done /\ \E p \in Paths : OwnResourceClash(p)) =>
        /\ ret.kind = "error"
        /\ (\A p \in Paths : ~Failing(p) /\ ~Collides(Declared(p, "assets"))) =>
              /\ ret.error = "DuplicateDefinitionError"
              /\ ret.coll = "resources"
              /\ ret.key = "r"

C8_Witness ==
    /\ Done
    /\ Len(root) = 2
    /\ OwnResourceClash(1)
    /\ visited = <<2, 1>>
    /\ ret.error = "DuplicateDefinitionError"
    /\ ret.coll = "resources"

\* C10: two calls on the same root, each visiting the units in an order of
\* its own, both fail or both succeed with the same assets, jobs, resources,
\* schedules and sensors.
C10_OrderIndependent ==
    (Done /\ CalledBefore) =>
        \/ ret.kind = "error" /\ prev.ret.kind = "error"
        \/ ret.kind = "defs" /\ prev.ret.kind = "defs" /\ ret.defs = prev.ret.defs

C10_Witness ==
    /\ Done
    /\ prev.first = 1
    /\ visited = <<2, 1>>
    /\ ret.kind = "defs"
    /\ DOMAIN ret.defs["assets"] = {"x", "y"}
    /\ DOMAIN ret.defs["jobs"] = {"j"}

----------------------------------------------------------------------------
(* Properties of resolve_decl_node_to_yaml_decls *)

\* p comes before q in the depth-first pre-order of a tree.
PreOrderBefore(p, q) ==
    \/ Len(p) < Len(q) /\ SubSeq(q, 1, Len(p)) = p
    \/ \E i \in 1..Len(p) :
          /\ i <= Len(q)
          /\ SubSeq(p, 1, i - 1) = SubSeq(q, 1, i - 1)
          /\ p[i] < q[i]

LeavesOf(t) == {p \in DOMAIN t : t[p] = "leaf"}

\* C3: called on a tree of folders and leaves, of any depth, the function
\* returns a list that holds every leaf of the tree exactly once and nothing
\* else, in depth-first pre-order; two calls on one tree return one list.
C3_LeavesOncePreOrder ==
    \A n \in DOMAIN calls :
        LET t == calls[n].decl
            out == calls[n].out
        IN  (\A p \in DOMAIN t : t[p] \in {"leaf", "folder"}) =>
                /\ ~out.raised
                /\ {out.list[i] : i \in DOMAIN out.list} = LeavesOf(t)
                /\ Len(out.list) = Cardinality(LeavesOf(t))
                /\ \A i, j \in DOMAIN out.list :
                      i < j => PreOrderBefore(out.list[i], out.list[j])
                /\ \A m \in DOMAIN calls : calls[m].decl = t => calls[m].out = out

C3_Witness ==
    /\ Len(calls) = 2
    /\ \A p \in DOMAIN decl : decl[p] \in {"leaf", "folder"}
    /\ \E p \in DOMAIN decl : decl[p] = "folder" /\ NumChildren(decl, p) = 0
    /\ \E p \in LeavesOf(decl) : Len(p) = 2
    /\ \E p \in LeavesOf(decl) : Len(p) = 1
    /\ Len(calls[2].out.list) = 2

----------------------------------------------------------------------------
(* Properties of resolve_translator *)

\* C9 as claimed: resolving the field that requires scope "node" in a
\* context whose scopes, parents included, hold no "node" fails with a
\* ScopeResolutionError naming "node"; in a context that holds "node" it
\* succeeds.
C9_RequiredScopeEnforced ==
    (resolved.kind # "none" /\ schema.asset_attributes.set
        /\ schema.asset_attributes.deps = <<>>) =>
        IF InScope(resolved.context, "node")
        THEN resolved.kind = "translator"
        ELSE resolved.kind = "error"
               /\ resolved.error = "ScopeResolutionError"
               /\ resolved.key = "node"

====
